---- MODULE Spec2Model ----
(***************************************************************************)
(* Model of the Twitch EventSub client (src/src/twitch.py): the OAuth      *)
(* state table and token set, the WebSocket session, the migration task   *)
(* (_reconnect) and the reconnection loop (run).                           *)
(*                                                                         *)
(* Every `await` of the source is a point where the other tasks of the     *)
(* event loop may run; the code between two awaits is one action.          *)
(***************************************************************************)
EXTENDS Integers, Sequences, FiniteSets, TLC

(***************************************************************************)
(* Bounds of the model                                                     *)
(***************************************************************************)
MaxWs == 3            \* transports the environment lets the client open
MaxMig == 1           \* migration tasks alive at the same time
MaxReconnectFrames == 1   \* session_reconnect frames the server sends
MaxDisconnects == 1   \* disconnect() calls of the hosting application
MaxFailures == 2      \* connection attempts the environment lets fail
MaxExch == 2          \* exchange_code_for_token calls in flight
MaxNow == 602         \* the clock of the OAuth specification stops here
MaxHandlers == 2      \* add_event_callback calls of the hosting application
MaxTimeouts == 2      \* timeouts of _wait_for_oauth_completion the model follows
PollsPerWait == 2     \* polls of one wait, for max_wait // poll_interval

(***************************************************************************)
(* Program constants                                                       *)
(***************************************************************************)
OAUTH_STATE_EXPIRY == 300
DEFAULT_KEEPALIVE_TIMEOUT == 10
max_reconnect_attempts == 5
base_delay == 1
max_delay == 60
LongDelay == 60
RefreshMargin == 60
TWITCH_EVENTSUB_WS_URL == "wss://eventsub.wss.twitch.tv/ws"

(***************************************************************************)
(* Values                                                                  *)
(***************************************************************************)
None == "None"                 \* Python None for string-valued attributes
NoWs == 0                      \* Python None for self.websocket
NoSession == 0                 \* Python None for self.session_id
NoTime == -1                   \* Python None for token_expires_at / timestamp
MigrateUrl == "wss://new"      \* a server-supplied reconnect_url
SessionStart == 1000           \* the clock value of the session specification
ServerKeepalive == 30          \* a keepalive_timeout_seconds the server assigns
ExpiresIn == 3600              \* an expires_in the token endpoint answers

WsIds == 1..MaxWs
MigIds == 1..MaxMig
ExchIds == 1..MaxExch
States == {"s1", "s2"}         \* OAuth state tokens
ScopeLists == {<<>>, <<"channel:read:subscriptions">>}
StateArgs == States \cup {None}   \* the state argument of generate_auth_url
TimeSteps == {299, 301}
\* the instants of the token specification: the last second before a token
\* issued at 0 enters the refresh margin, and the first second inside it
TokenTimes == {ExpiresIn - RefreshMargin - 1, ExpiresIn - RefreshMargin}

VARIABLES
    \* token storage (twitch.py 92-97)
    access_token, refresh_token, token_type, token_expires_at, scopes,
    \* OAuth state table (twitch.py 100)
    oauth_states,
    \* WebSocket connection (twitch.py 103-108)
    session_id, websocket, keepalive_timeout, reconnect_url,
    is_connected, is_reconnecting,
    \* environment and tasks
    now,        \* time.time()
    ws,         \* the transport objects websockets.connect() has returned
    run,        \* the position of run() / connect() / _handle_messages()
    mig,        \* the tasks created by asyncio.create_task(self._reconnect())
    disc,       \* the position of a disconnect() call
    exch,       \* the exchange_code_for_token calls
    \* observations of the behaviour
    cbReconnect,    \* number of _trigger_callback("reconnect", ...) calls
    scen,           \* monitor of the frame sequence fed so far
    passCount,      \* exchanges that passed validation since the state was recorded
    silent,         \* the transport a keepalive interval has passed on in silence
    nfail,          \* connection attempts the environment has let fail
    ndisc,          \* disconnect() calls completed
    migFailed,      \* a migration attempt has failed since the last connect
    \* the token manager and its callers
    recorded,       \* the time generate_auth_url last recorded a state that no
                    \* exchange has found in the table since
    auth_url,       \* what the last generate_auth_url call returned or raised
    sub,            \* a subscribe_to_event call
    refr,           \* a refresh_user_token call of the hosting application
    rev,            \* a revoke_token call
    granted,        \* a code exchange has succeeded and no revocation since
    \* event callbacks (twitch.py 111)
    event_callbacks,
    log,            \* the last frame _process_message was given and the
                    \* handler invocations it made
    \* the hosting application's OAuth flow (main.py 218-294)
    flow

tokenVars == <<access_token, refresh_token, token_type, token_expires_at, scopes>>
sessVars == <<session_id, websocket, keepalive_timeout, reconnect_url,
              is_connected, is_reconnecting>>
oauthVars == <<oauth_states, exch, passCount>>
taskVars == <<ws, run, mig, disc>>
obsVars == <<cbReconnect, scen, silent, nfail, ndisc, migFailed>>
tmVars == <<recorded, auth_url, sub, refr, rev, granted>>
cbVars == <<event_callbacks, log, flow>>
vars == <<tokenVars, sessVars, oauthVars, taskVars, obsVars, now, tmVars, cbVars>>

(***************************************************************************)
(* Token set                                                               *)
(***************************************************************************)
\* A 200 answer of the token endpoint.  refresh_token = None, has_scope =
\* FALSE and expires_in = 0 stand for a key the answer does not carry.
TokenResponses ==
    {[access_token |-> "A2", refresh_token |-> "R2", has_scope |-> TRUE,
      scope |-> {"bits:read"}, expires_in |-> ExpiresIn],
     [access_token |-> "A3", refresh_token |-> None, has_scope |-> FALSE,
      scope |-> {}, expires_in |-> 0]}

\* the token set of a new client (lines 92-97)
NoToken == [access_token |-> None, refresh_token |-> None, token_type |-> "app",
            scopes |-> {}, token_expires_at |-> NoTime]

\* _clear_token_data: the token set after a revocation
ClearTokenData_KeepsKind == [NoToken EXCEPT !.token_type = "user"]

ClearTokenData == NoToken

\* _store_token_data: the token set after a successful code exchange.
StoreTokenData(resp, t, oldExpires) ==
    [access_token |-> resp.access_token,
     refresh_token |-> resp.refresh_token,
     token_type |-> "user",
     scopes |-> IF resp.has_scope THEN resp.scope ELSE {},
     token_expires_at |-> IF resp.expires_in # 0 THEN t + resp.expires_in
                          ELSE oldExpires]

\* refresh_user_token, status 200: the token set after a refresh.
RefreshTokenData_DropsRefresh(resp, t, oldRefresh, oldType, oldScopes, oldExpires) ==
    [access_token |-> resp.access_token,
     refresh_token |-> resp.refresh_token,
     token_type |-> oldType,
     scopes |-> IF resp.has_scope THEN resp.scope ELSE oldScopes,
     token_expires_at |-> IF resp.expires_in # 0 THEN t + resp.expires_in
                          ELSE oldExpires]

RefreshTokenData(resp, t, oldRefresh, oldType, oldScopes, oldExpires) ==
    [access_token |-> resp.access_token,
     refresh_token |-> IF resp.refresh_token # None THEN resp.refresh_token
                       ELSE oldRefresh,
     token_type |-> oldType,
     scopes |-> IF resp.has_scope THEN resp.scope ELSE oldScopes,
     token_expires_at |-> IF resp.expires_in # 0 THEN t + resp.expires_in
                          ELSE oldExpires]

InstallToken(tok) ==
    /\ access_token' = tok.access_token
    /\ refresh_token' = tok.refresh_token
    /\ token_type' = tok.token_type
    /\ scopes' = tok.scopes
    /\ token_expires_at' = tok.token_expires_at

\* ensure_valid_token, the synchronous part before its first await:
\* "auth" raises TwitchAuthenticationError, "refresh" awaits
\* refresh_user_token(), "validate" awaits validate_token().
EnsureDecision_NeverRefreshes(acc, exp, ref, kind, t) ==
    IF acc = None THEN "auth" ELSE "validate"

EnsureDecision(acc, exp, ref, kind, t) ==
    IF acc = None THEN "auth"
    ELSE IF exp # NoTime /\ t >= exp - RefreshMargin
         THEN IF ref # None /\ kind = "user" THEN "refresh" ELSE "auth"
         ELSE "validate"

(***************************************************************************)
(* OAuth state table                                                       *)
(***************************************************************************)
NoState == [scopes |-> <<>>, timestamp |-> NoTime]
NoCall == [pc |-> "idle", state |-> None, result |-> None, at |-> NoTime]
NoRecording == [at |-> NoTime, found |-> FALSE]
NoUrl == [kind |-> "none", state |-> <<>>]

\* the characters of a state token: "s1" is a token as secrets.token_urlsafe
\* generates them, "s2" one a caller supplies with reserved characters in it
StateText(s) == IF s = "s1" THEN <<"a", "b">> ELSE <<"a", " ", "+", "%">>

\* urllib.parse.urlencode quotes each value with quote_plus: unreserved
\* characters stay, a space becomes "+", any other character "%XX"
Unreserved == {"a", "b", "2", "5", "B"}
Hex(c) == IF c = "+" THEN <<"2", "B">> ELSE <<"2", "5">>

RECURSIVE QuotePlus(_)
QuotePlus(t) ==
    IF t = <<>> THEN <<>>
    ELSE (IF Head(t) \in Unreserved THEN <<Head(t)>>
          ELSE IF Head(t) = " " THEN <<"+">>
          ELSE <<"%">> \o Hex(Head(t))) \o QuotePlus(Tail(t))

\* the value a query-string parser (unquote_plus) reads back
Unhex(h) == IF h = <<"2", "B">> THEN "+" ELSE "%"

RECURSIVE UnquotePlus(_)
UnquotePlus(q) ==
    IF q = <<>> THEN <<>>
    ELSE IF Head(q) = "+" THEN <<" ">> \o UnquotePlus(Tail(q))
    ELSE IF Head(q) = "%" /\ Len(q) >= 3
         THEN <<Unhex(SubSeq(q, 2, 3))>> \o UnquotePlus(SubSeq(q, 4, Len(q)))
    ELSE <<Head(q)>> \o UnquotePlus(Tail(q))

\* _cleanup_expired_states
CleanupExpiredStates(tbl, t) ==
    [s \in States |->
        IF tbl[s] # NoState /\ t - tbl[s].timestamp > OAUTH_STATE_EXPIRY
        THEN NoState ELSE tbl[s]]

\* line 132-133: a missing state argument is replaced by a generated token
EffectiveState(st) == IF st = None THEN "s1" ELSE st

\* lines 136-142: the state is recorded, then expired states are swept
RecordState_OnEmpty(tbl, sc, s, t) ==
    CleanupExpiredStates([tbl EXCEPT ![s] = [scopes |-> sc, timestamp |-> t]], t)

RecordState(tbl, sc, s, t) ==
    IF Len(sc) = 0 THEN tbl
    ELSE CleanupExpiredStates(
            [tbl EXCEPT ![s] = [scopes |-> sc, timestamp |-> t]], t)

\* generate_auth_url(scopes, state): ValueError on an empty scopes list
\* (lines 129-130), else the URL with the quoted state (lines 144-156)
GenerateAuthUrl(sc, st) ==
    LET s == EffectiveState(st)
    IN  /\ oauth_states' = RecordState(oauth_states, sc, s, now)
        /\ IF Len(sc) = 0
           THEN /\ auth_url' = [kind |-> "ValueError", state |-> <<>>]
                /\ UNCHANGED <<passCount, recorded,
                   cbVars>>
           ELSE /\ auth_url' = [kind |-> "url", state |-> QuotePlus(StateText(s))]
                /\ passCount' = [passCount EXCEPT ![s] = 0]
                /\ recorded' = [recorded EXCEPT ![s] = [at |-> now, found |-> FALSE]]
        /\ UNCHANGED <<tokenVars, sessVars, exch, taskVars, obsVars, now,
                       sub, refr, rev, granted,
                   cbVars>>

\* line 194: the popped state is older than the window
StateExpired_Never(data, t) == FALSE

StateExpired(data, t) == t - data.timestamp > OAUTH_STATE_EXPIRY

\* lines 189 and 195: `raise ValueError(...)` before any request is sent
RaiseValueError_Posts(i, s, err) ==
    exch' = [exch EXCEPT ![i] = [pc |-> "posting", state |-> s, result |-> None,
                             at |-> now]]

RaiseValueError(i, s, err) ==
    exch' = [exch EXCEPT ![i] = [pc |-> "done", state |-> s, result |-> err,
                             at |-> now]]

\* exchange_code_for_token up to its first await: the state is validated
\* and popped (lines 187-195), then the POST to the token endpoint is sent.
ExchangeValidate_NoPop(i, s) ==
    /\ exch[i].pc = "idle"
    /\ IF oauth_states[s] = NoState
       THEN /\ RaiseValueError(i, s, "InvalidState")
            /\ UNCHANGED <<oauth_states, passCount, recorded,
                   cbVars>>
       ELSE /\ UNCHANGED oauth_states
            /\ recorded' = [recorded EXCEPT ![s].found = TRUE]
            /\ IF StateExpired(oauth_states[s], now)
               THEN /\ RaiseValueError(i, s, "ExpiredState")
                    /\ UNCHANGED passCount
               ELSE /\ exch' = [exch EXCEPT ![i] = [pc |-> "posting", state |-> s,
                                                    result |-> None, at |-> now]]
                    /\ passCount' = [passCount EXCEPT ![s] = @ + 1]
    /\ UNCHANGED <<tokenVars, sessVars, taskVars, obsVars, now,
                   auth_url, sub, refr, rev, granted,
                   cbVars>>

ExchangeValidate(i, s) ==
    /\ exch[i].pc = "idle"
    /\ IF oauth_states[s] = NoState
       THEN /\ RaiseValueError(i, s, "InvalidState")
            /\ UNCHANGED <<oauth_states, passCount, recorded,
                   cbVars>>
       ELSE /\ oauth_states' = [oauth_states EXCEPT ![s] = NoState]
            /\ recorded' = [recorded EXCEPT ![s].found = TRUE]
            /\ IF StateExpired(oauth_states[s], now)
               THEN /\ RaiseValueError(i, s, "ExpiredState")
                    /\ UNCHANGED passCount
               ELSE /\ exch' = [exch EXCEPT ![i] = [pc |-> "posting", state |-> s,
                                                    result |-> None, at |-> now]]
                    /\ passCount' = [passCount EXCEPT ![s] = @ + 1]
    /\ UNCHANGED <<tokenVars, sessVars, taskVars, obsVars, now,
                   auth_url, sub, refr, rev, granted,
                   cbVars>>

\* the answer of the token endpoint: status 200 stores the token set
ExchangeSuccess(i, resp) ==
    /\ exch[i].pc = "posting"
    /\ InstallToken(StoreTokenData(resp, now, token_expires_at))
    /\ exch' = [exch EXCEPT ![i].pc = "done", ![i].result = "ok"]
    /\ granted' = TRUE
    /\ UNCHANGED <<sessVars, oauth_states, passCount, taskVars, obsVars, now,
                   recorded, auth_url, sub, refr, rev,
                   cbVars>>

ExchangeFailure_ClearsToken(i) ==
    /\ exch[i].pc = "posting"
    /\ exch' = [exch EXCEPT ![i].pc = "done",
                            ![i].result = "TwitchAuthenticationError"]
    /\ InstallToken(ClearTokenData)
    /\ UNCHANGED <<sessVars, oauth_states, passCount, taskVars,
                   obsVars, now, tmVars, cbVars>>

\* any other status, or aiohttp.ClientError: TwitchAuthenticationError
ExchangeFailure(i) ==
    /\ exch[i].pc = "posting"
    /\ exch' = [exch EXCEPT ![i].pc = "done",
                            ![i].result = "TwitchAuthenticationError"]
    /\ UNCHANGED <<tokenVars, sessVars, oauth_states, passCount, taskVars,
                   obsVars, now, tmVars, cbVars>>

\* the call has returned or raised; the caller may call again
ExchangeReturn(i) ==
    /\ exch[i].pc = "done"
    /\ exch' = [exch EXCEPT ![i] = NoCall]
    /\ UNCHANGED <<tokenVars, sessVars, oauth_states, passCount, taskVars,
                   obsVars, now, tmVars, cbVars>>

\* time.time() advances
Tick(d) ==
    /\ now + d <= MaxNow
    /\ now' = now + d
    /\ UNCHANGED <<tokenVars, sessVars, oauthVars, taskVars, obsVars, tmVars, cbVars>>

(***************************************************************************)
(* Token manager calls: subscribe_to_event (with its ensure_valid_token),  *)
(* refresh_user_token and revoke_token                                     *)
(***************************************************************************)
\* no answer of the subscription endpoint yet
NoAnswer == [status |-> None, json |-> FALSE]

NoSub == [pc |-> "idle", type |-> None, result |-> None, refreshes |-> 0,
          validates |-> 0, ensured |-> FALSE, kind |-> None, status |-> NoAnswer]

\* line 767: the status of an accepted subscription
Accepted == "202"

\* what the POST of lines 763-765 meets: a status with a JSON body, a status
\* 202 with a body that is not JSON, or a transport error
SubAnswers ==
    {[status |-> Accepted, json |-> TRUE], [status |-> Accepted, json |-> FALSE],
     [status |-> "400", json |-> TRUE], [status |-> "ClientError", json |-> FALSE]}

NoTokenCall == [pc |-> "idle", result |-> None]

SubTypes == {"channel.cheer", "stream.online"}

\* get_required_scopes_for_subscription
RequiredScopes(ty) == IF ty = "channel.cheer" THEN {"bits:read"} ELSE {}

\* subscribe_to_event is called: no session (lines 731-733), else
\* ensure_valid_token() up to its first await (lines 382-399)
SubscribeCall_TokenFirst(ty) ==
    /\ sub.pc \in {"idle", "done"}
    /\ sub' = [NoSub EXCEPT !.type = ty, !.pc = "validating", !.validates = 1]
    /\ UNCHANGED <<tokenVars, sessVars, oauthVars, taskVars, obsVars, now,
                   recorded, auth_url, refr, rev, granted,
                   cbVars>>

SubscribeCall(ty) ==
    /\ sub.pc \in {"idle", "done"}
    /\ LET d == EnsureDecision(access_token, token_expires_at, refresh_token,
                               token_type, now)
           c == [NoSub EXCEPT !.type = ty]
       IN  sub' = IF session_id = NoSession
                  THEN [c EXCEPT !.pc = "done", !.result = "False"]
                  ELSE IF d = "auth"
                  THEN [c EXCEPT !.pc = "done",
                                 !.result = "TwitchAuthenticationError"]
                  ELSE IF d = "refresh"
                  THEN [c EXCEPT !.pc = "refreshing", !.refreshes = 1]
                  ELSE [c EXCEPT !.pc = "validating", !.validates = 1]
    /\ UNCHANGED <<tokenVars, sessVars, oauthVars, taskVars, obsVars, now,
                   recorded, auth_url, refr, rev, granted,
                   cbVars>>

\* lines 739-765, after ensure_valid_token() has returned: the scope check
\* of a user token, then the POST of the subscription request
SubAfterEnsure_NoScopeCheck(c, kind, held) ==
    [c EXCEPT !.pc = "posting", !.kind = kind, !.ensured = TRUE]

SubAfterEnsure(c, kind, held) ==
    IF RequiredScopes(c.type) # {} /\ kind = "user"
       /\ ~(RequiredScopes(c.type) \subseteq held)
    THEN [c EXCEPT !.pc = "done", !.result = "False", !.ensured = TRUE]
    ELSE [c EXCEPT !.pc = "posting", !.kind = kind, !.ensured = TRUE]

\* the refresh of ensure_valid_token() got status 200
SubRefreshed(resp) ==
    /\ sub.pc = "refreshing"
    /\ LET tok == RefreshTokenData(resp, now, refresh_token, token_type,
                                   scopes, token_expires_at)
       IN  /\ InstallToken(tok)
           /\ sub' = SubAfterEnsure(sub, tok.token_type, tok.scopes)
    /\ UNCHANGED <<sessVars, oauthVars, taskVars, obsVars, now,
                   recorded, auth_url, refr, rev, granted,
                   cbVars>>

\* the validation of ensure_valid_token() got status 200
SubValidated ==
    /\ sub.pc = "validating"
    /\ sub' = SubAfterEnsure(sub, token_type, scopes)
    /\ UNCHANGED <<tokenVars, sessVars, oauthVars, taskVars, obsVars, now,
                   recorded, auth_url, refr, rev, granted,
                   cbVars>>

\* refresh or validation failed: lines 391-393, 400-402 and 775-777
SubEnsureFailed_ValueError ==
    /\ sub.pc \in {"refreshing", "validating"}
    /\ sub' = [sub EXCEPT !.pc = "done", !.result = "ValueError"]
    /\ UNCHANGED <<tokenVars, sessVars, oauthVars, taskVars, obsVars, now,
                   recorded, auth_url, refr, rev, granted,
                   cbVars>>

SubEnsureFailed ==
    /\ sub.pc \in {"refreshing", "validating"}
    /\ sub' = [sub EXCEPT !.pc = "done", !.result = "TwitchAuthenticationError"]
    /\ UNCHANGED <<tokenVars, sessVars, oauthVars, taskVars, obsVars, now,
                   recorded, auth_url, refr, rev, granted,
                   cbVars>>

\* the subscription request is answered: 202 or not (lines 767-783)
SubAnswered_AlwaysTrue(answer) ==
    /\ sub.pc = "posting"
    /\ sub' = [sub EXCEPT !.pc = "done", !.status = answer, !.result = "True"]
    /\ UNCHANGED <<tokenVars, sessVars, oauthVars, taskVars, obsVars, now,
                   recorded, auth_url, refr, rev, granted,
                   cbVars>>

SubAnswered(answer) ==
    /\ sub.pc = "posting"
    /\ sub' = [sub EXCEPT !.pc = "done", !.status = answer,
                          !.result = IF answer.json /\ answer.status = Accepted
                                     THEN "True" ELSE "False"]
    /\ UNCHANGED <<tokenVars, sessVars, oauthVars, taskVars, obsVars, now,
                   recorded, auth_url, refr, rev, granted,
                   cbVars>>

\* refresh_user_token() is called: lines 254-266
RefreshCall ==
    /\ refr.pc \in {"idle", "done"}
    /\ refr' = IF refresh_token = None
               THEN [pc |-> "done", result |-> "ValueError"]
               ELSE [pc |-> "posting", result |-> None]
    /\ UNCHANGED <<tokenVars, sessVars, oauthVars, taskVars, obsVars, now,
                   recorded, auth_url, sub, rev, granted,
                   cbVars>>

\* status 200: lines 269-281
RefreshSuccess(resp) ==
    /\ refr.pc = "posting"
    /\ InstallToken(RefreshTokenData(resp, now, refresh_token, token_type,
                                     scopes, token_expires_at))
    /\ refr' = [pc |-> "done", result |-> "ok"]
    /\ UNCHANGED <<sessVars, oauthVars, taskVars, obsVars, now,
                   recorded, auth_url, sub, rev, granted,
                   cbVars>>

\* any other status or a network error: lines 282-292
RefreshFailure ==
    /\ refr.pc = "posting"
    /\ refr' = [pc |-> "done", result |-> "TwitchAuthenticationError"]
    /\ UNCHANGED <<tokenVars, sessVars, oauthVars, taskVars, obsVars, now,
                   recorded, auth_url, sub, rev, granted,
                   cbVars>>

\* revoke_token() is called: lines 340-350
RevokeCall ==
    /\ rev.pc \in {"idle", "done"}
    /\ rev' = IF access_token = None
              THEN [pc |-> "done", result |-> "ValueError"]
              ELSE [pc |-> "posting", result |-> None]
    /\ UNCHANGED <<tokenVars, sessVars, oauthVars, taskVars, obsVars, now,
                   recorded, auth_url, sub, refr, granted,
                   cbVars>>

\* status 200: _clear_token_data (lines 351-353)
RevokeSuccess ==
    /\ rev.pc = "posting"
    /\ InstallToken(ClearTokenData)
    /\ granted' = FALSE
    /\ rev' = [pc |-> "done", result |-> "ok"]
    /\ UNCHANGED <<sessVars, oauthVars, taskVars, obsVars, now,
                   recorded, auth_url, sub, refr,
                   cbVars>>

\* any other status or a network error: lines 354-365
RevokeFailure_Clears ==
    /\ rev.pc = "posting"
    /\ InstallToken(ClearTokenData)
    /\ rev' = [pc |-> "done", result |-> "TwitchAuthenticationError"]
    /\ UNCHANGED <<sessVars, oauthVars, taskVars, obsVars, now,
                   recorded, auth_url, sub, refr, granted,
                   cbVars>>

RevokeFailure ==
    /\ rev.pc = "posting"
    /\ rev' = [pc |-> "done", result |-> "TwitchAuthenticationError"]
    /\ UNCHANGED <<tokenVars, sessVars, oauthVars, taskVars, obsVars, now,
                   recorded, auth_url, sub, refr, granted,
                   cbVars>>

\* time.time() advances to one of the instants around the refresh margin
Elapse(t) ==
    /\ t > now
    /\ now' = t
    /\ UNCHANGED <<tokenVars, sessVars, oauthVars, taskVars, obsVars, tmVars, cbVars>>

(***************************************************************************)
(* Transports and frames                                                   *)
(***************************************************************************)
NoTransport == [state |-> "unused", close |-> None]
NoTask == [pc |-> "none", ws |-> NoWs, url |-> None, tgt |-> NoWs,
           first |-> None, old |-> NoWs]
NoDisconnect == [pc |-> "idle", tgt |-> NoWs]

Min(S) == CHOOSE x \in S : \A y \in S : x <= y

\* the object a successful websockets.connect() returns
UnusedWs == {w \in WsIds : ws[w].state = "unused"}
NewWs == Min(UnusedWs)

\* the id the server assigns to the session of transport w
Sid(w) == w

\* a JSON object without keys
EmptyObject == [k \in {} |-> None]

\* a frame: metadata.message_type, payload.session.id, .keepalive_timeout_seconds
\* and .reconnect_url (NoSession, 0 and None for a key the frame has not),
\* metadata.subscription_type and the payload of a notification
Frame(t, id, ka, url) ==
    [type |-> t, id |-> id, ka |-> ka, url |-> url,
     subscription_type |-> None, payload |-> EmptyObject]

\* the frames the server may send on transport w ("malformed" is a frame
\* that is not valid JSON, "unknown" a message_type the client does not know)
FramesOn(w) ==
    {Frame("session_welcome", Sid(w), ka, None) : ka \in {0, ServerKeepalive}}
    \cup {Frame("session_reconnect", NoSession, 0, u) : u \in {None, MigrateUrl}}
    \cup {Frame(t, NoSession, 0, None) :
            t \in {"session_keepalive", "notification", "revocation",
                   "unknown", "malformed"}}

PlainFramesOn(w) == {f \in FramesOn(w) : f.type # "session_reconnect"}

\* notifications with a subscription type and with or without an event
EventX == [broadcaster_user_name |-> "X"]

NotificationFrames ==
    {[Frame("notification", NoSession, 0, None)
        EXCEPT !.subscription_type = ty, !.payload = pl] :
       ty \in {"stream.online", "channel.follow"},
       pl \in {EmptyObject, [event |-> EventX]}}

\* websocket.close() is called by the client: the closing handshake with
\* code 1000 starts; frames the peer sent before are still delivered
CloseByClient(tr, w) ==
    IF w # NoWs /\ tr[w].state = "open"
    THEN [tr EXCEPT ![w].state = "closing"]
    ELSE tr

\* the closing handshake of w is over.  The task that awaits close() and the
\* task that iterates over w are woken by this one event, so the caller of
\* close() goes on before the reader of w can complete any network call.
CloseDone(tr, w) ==
    IF w # NoWs /\ tr[w].state = "closing"
    THEN [tr EXCEPT ![w].state = "closed", ![w].close = "clean"]
    ELSE tr

Receiving(w) == ws[w].state \in {"open", "closing"}

\* close() of w has a closing handshake to wait for
Closes(w) == w # NoWs /\ ws[w].state \in {"open", "closing"}

\* the reader of transport w has been told how w was closed
Reported(tr, w) == [tr EXCEPT ![w].close = None]

(***************************************************************************)
(* _process_message and the handlers it routes to                          *)
(***************************************************************************)
\* _handle_welcome_message (lines 562-563)
WelcomeSessionId(f, cur) == IF f.type = "session_welcome" THEN f.id ELSE cur

WelcomeKeepalive_NoFallback(f, cur) ==
    IF f.type = "session_welcome" THEN f.ka ELSE cur

WelcomeKeepalive(f, cur) ==
    IF f.type = "session_welcome"
    THEN (IF f.ka = 0 THEN DEFAULT_KEEPALIVE_TIMEOUT ELSE f.ka)
    ELSE cur

\* _handle_reconnect_message (lines 620-629)
ReconnectUrl(f, cur) == IF f.type = "session_reconnect" THEN f.url ELSE cur

ReconnectFlag(f, cur) == IF f.type = "session_reconnect" THEN TRUE ELSE cur

ReconnectCallbacks_Twice(f, n) ==
    IF f.type = "session_reconnect" THEN n + 2 ELSE n

ReconnectCallbacks(f, n) == IF f.type = "session_reconnect" THEN n + 1 ELSE n

\* asyncio.create_task(self._reconnect()) for a frame that arrived on `old`
Spawn(mg, f, old) ==
    IF f.type = "session_reconnect"
    THEN LET k == Min({j \in MigIds : mg[j].pc = "none"})
         IN [mg EXCEPT ![k] = [NoTask EXCEPT !.pc = "created", !.old = old]]
    ELSE mg

\* the model can take the frame: a free task slot for a session_reconnect
CanTake(f, mg) ==
    f.type = "session_reconnect" =>
        /\ \E j \in MigIds : mg[j].pc = "none"
        /\ cbReconnect < MaxReconnectFrames

\* monitor of the frame sequence [welcome, reconnect(url)] on one transport
\* followed by a welcome as the first frame of the migration transport
ScenNext(f, reader, w) ==
    IF scen = "init" /\ reader = "loop" /\ f.type = "session_welcome" THEN "w1"
    ELSE IF scen = "w1" /\ reader = "loop" /\ f.type = "session_reconnect"
            /\ f.url # None /\ session_id = Sid(w) THEN "w1r"
    ELSE IF scen = "w1r" /\ reader = "recv" /\ f.type = "session_welcome"
         THEN "w1rw2"
    \* a further frame of the old transport, read by the loop of connect()
    ELSE IF scen = "w1r" /\ reader = "loop" THEN "w1rf"
    ELSE "off"

\* the handlers the hosting application registers; h2 raises when called
Handlers == {"h1", "h2"}

Raises(h) == h = "h2"

RegTypes == {"welcome", "stream.online", "notification"}

NoLog == [on |-> FALSE, n |-> 0, ws |-> NoWs, after_malformed |-> FALSE,
          frame |-> Frame("none", NoSession, 0, None), calls |-> <<>>,
          error |-> "none"]

\* line 697-698: the handler list of an event type
HandlersFor(reg, ty) == IF ty \in DOMAIN reg THEN reg[ty] ELSE <<>>

\* the loop of _trigger_callback over a handler list: what was invoked, with
\* which argument and with which session_id in place, and what it raised
RECURSIVE Invoke_NoTry(_, _, _, _)
Invoke_NoTry(hs, ty, data, sid) ==
    IF hs = <<>> THEN [calls |-> <<>>, error |-> "none"]
    ELSE LET c == [h |-> Head(hs), type |-> ty, data |-> data, sid |-> sid]
             rest == Invoke_NoTry(Tail(hs), ty, data, sid)
         IN  IF Raises(Head(hs)) THEN [calls |-> <<c>>, error |-> "Exception"]
             ELSE [calls |-> <<c>> \o rest.calls, error |-> rest.error]

RECURSIVE Invoke(_, _, _, _)
Invoke(hs, ty, data, sid) ==
    IF hs = <<>> THEN [calls |-> <<>>, error |-> "none"]
    ELSE LET c == [h |-> Head(hs), type |-> ty, data |-> data, sid |-> sid]
             rest == Invoke(Tail(hs), ty, data, sid)
         IN  [calls |-> <<c>> \o rest.calls, error |-> rest.error]

TriggerCallback(reg, ty, data, sid) == Invoke(HandlersFor(reg, ty), ty, data, sid)

\* two statements of one try block: the second runs if the first did not raise
Then(a, b) ==
    IF a.error # "none" THEN a
    ELSE [calls |-> a.calls \o b.calls, error |-> b.error]

\* line 596: payload.get("event", {})
EventData(f) ==
    IF "event" \in DOMAIN f.payload THEN f.payload.event ELSE EmptyObject

\* _handle_notification_message (lines 593-604)
NotificationCalls_FrameToAll(f, reg, sid) ==
    Then(TriggerCallback(reg, f.subscription_type, f, sid),
         TriggerCallback(reg, "notification", f, sid))

NotificationCalls(f, reg, sid) ==
    Then(TriggerCallback(reg, f.subscription_type, EventData(f), sid),
         TriggerCallback(reg, "notification", f, sid))

\* _process_message(f): the handler invocations of the frame; sid is
\* self.session_id after the assignments of the frame's handler
Dispatched_MalformedNotifies(f, reg, sid) ==
    IF f.type = "malformed" THEN TriggerCallback(reg, "notification", f, sid)
    ELSE IF f.type = "session_welcome" THEN TriggerCallback(reg, "welcome", f, sid)
    ELSE IF f.type = "session_keepalive" THEN TriggerCallback(reg, "keepalive", f, sid)
    ELSE IF f.type = "notification" THEN NotificationCalls(f, reg, sid)
    ELSE IF f.type = "session_reconnect" THEN TriggerCallback(reg, "reconnect", f, sid)
    ELSE IF f.type = "revocation" THEN TriggerCallback(reg, "revocation", f, sid)
    ELSE [calls |-> <<>>, error |-> "none"]

Dispatched(f, reg, sid) ==
    IF f.type = "malformed" THEN [calls |-> <<>>, error |-> "JSONDecodeError"]
    ELSE IF f.type = "session_welcome" THEN TriggerCallback(reg, "welcome", f, sid)
    ELSE IF f.type = "session_keepalive" THEN TriggerCallback(reg, "keepalive", f, sid)
    ELSE IF f.type = "notification" THEN NotificationCalls(f, reg, sid)
    ELSE IF f.type = "session_reconnect" THEN TriggerCallback(reg, "reconnect", f, sid)
    ELSE IF f.type = "revocation" THEN TriggerCallback(reg, "revocation", f, sid)
    ELSE [calls |-> <<>>, error |-> "none"]

\* the record of a frame of transport w _process_message has returned from
Logged(lg, w, f, d) ==
    IF lg.on
    THEN [on |-> TRUE, n |-> 1 - lg.n, ws |-> w,
          after_malformed |-> (lg.frame.type = "malformed" /\ lg.ws = w),
          frame |-> f, calls |-> d.calls, error |-> d.error]
    ELSE lg

\* lines 712-714: the registry with h appended to the list of ty
WithCallback(reg, ty, h) ==
    [t \in DOMAIN reg \cup {ty} |->
       IF t = ty THEN Append(HandlersFor(reg, ty), h) ELSE reg[t]]

\* add_event_callback (lines 712-714)
AddEventCallback(ty, h) ==
    /\ Len(HandlersFor(event_callbacks, "welcome"))
         + Len(HandlersFor(event_callbacks, "stream.online"))
         + Len(HandlersFor(event_callbacks, "notification")) < MaxHandlers
    /\ event_callbacks' = WithCallback(event_callbacks, ty, h)
    /\ UNCHANGED <<tokenVars, sessVars, oauthVars, taskVars, obsVars, now,
                   tmVars, log, flow>>

(***************************************************************************)
(* main.py: the OAuth flow of the hosting application                      *)
(***************************************************************************)
\* no initiate_oauth_flow() call yet. depth counts the initiate_oauth_flow
\* frames suspended at line 241, polls the sleeps of the innermost wait,
\* created the start_eventsub_connection tasks of line 246, started those
\* of them that have run lines 287-291
NoFlow == [pc |-> "idle", depth |-> 0, polls |-> 0, created |-> 0,
           started |-> 0]

\* config.REQUIRED_TWITCH_SCOPES
RequiredTwitchScopes == <<"channel:read:subscriptions">>

\* main.py 265: what _wait_for_oauth_completion polls for
OAuthCompleted == access_token # None /\ token_type = "user"

\* main.py 229: generate_auth_url(config.REQUIRED_TWITCH_SCOPES)
FlowGenerate ==
    LET s == EffectiveState(None)
    IN  /\ oauth_states' = RecordState(oauth_states, RequiredTwitchScopes, s, now)
        /\ auth_url' = [kind |-> "url", state |-> QuotePlus(StateText(s))]
        /\ passCount' = [passCount EXCEPT ![s] = 0]
        /\ recorded' = [recorded EXCEPT ![s] = [at |-> now, found |-> FALSE]]

\* on_ready (main.py 471) calls initiate_oauth_flow(), which runs up to the
\* wait of line 241
FlowInitiate ==
    /\ flow.pc = "idle"
    /\ FlowGenerate
    /\ flow' = [flow EXCEPT !.pc = "polling", !.depth = 1, !.polls = 0]
    /\ UNCHANGED <<tokenVars, sessVars, exch, taskVars, obsVars, now,
                   sub, refr, rev, granted, event_callbacks, log>>

\* main.py 264-267: a poll finds no user token and sleeps
FlowPollSleep ==
    /\ flow.pc = "polling"
    /\ flow.polls < PollsPerWait
    /\ ~OAuthCompleted
    /\ flow' = [flow EXCEPT !.polls = flow.polls + 1]
    /\ UNCHANGED <<tokenVars, sessVars, oauthVars, taskVars, obsVars, now,
                   tmVars, event_callbacks, log>>

\* main.py 269-270: the polls are used up, and the wait awaits a nested
\* initiate_oauth_flow(), which runs up to its own wait
FlowTimeout ==
    /\ flow.pc = "polling"
    /\ flow.polls = PollsPerWait
    /\ flow.depth <= MaxTimeouts
    /\ FlowGenerate
    /\ flow' = [flow EXCEPT !.depth = flow.depth + 1, !.polls = 0]
    /\ UNCHANGED <<tokenVars, sessVars, exch, taskVars, obsVars, now,
                   sub, refr, rev, granted, event_callbacks, log>>

\* main.py 265-266: a poll finds the user token and the innermost wait
\* returns. Its initiate_oauth_flow() creates the task of line 246 and
\* returns into the wait that awaited it at line 270, which returns into its
\* own initiate_oauth_flow(), and so on outwards without an await that
\* suspends: every suspended frame runs line 246.
FlowCompleted ==
    /\ flow.pc = "polling"
    /\ flow.polls < PollsPerWait
    /\ OAuthCompleted
    /\ flow' = [flow EXCEPT !.pc = "done", !.depth = 0,
                            !.created = flow.created + flow.depth]
    /\ UNCHANGED <<tokenVars, sessVars, oauthVars, taskVars, obsVars, now,
                   tmVars, event_callbacks, log>>

\* a start_eventsub_connection task runs (main.py 287-291): it registers the
\* two handlers of the application and calls run()
StartEventsubConnection ==
    /\ flow.started < flow.created
    /\ event_callbacks' =
         WithCallback(WithCallback(event_callbacks, "welcome", "h1"),
                      "stream.online", "h1")
    /\ flow' = [flow EXCEPT !.started = flow.started + 1]
    /\ UNCHANGED <<tokenVars, sessVars, oauthVars, taskVars, obsVars, now,
                   tmVars, log>>

\* the attributes of the client _process_message reads and assigns
Sess == [session_id |-> session_id, keepalive_timeout |-> keepalive_timeout,
         reconnect_url |-> reconnect_url, is_reconnecting |-> is_reconnecting,
         cb |-> cbReconnect]

\* _process_message(f): the attributes after the frame has been routed
ProcessMessage(f, s) ==
    [session_id |-> WelcomeSessionId(f, s.session_id),
     keepalive_timeout |-> WelcomeKeepalive(f, s.keepalive_timeout),
     reconnect_url |-> ReconnectUrl(f, s.reconnect_url),
     is_reconnecting |-> ReconnectFlag(f, s.is_reconnecting),
     cb |-> ReconnectCallbacks(f, s.cb)]

(***************************************************************************)
(* run() and connect()                                                     *)
(***************************************************************************)
\* min(base_delay * (2 ** reconnect_attempts), max_delay)
Pow2(n) == IF n = 0 THEN 1 ELSE IF n = 1 THEN 2 ELSE IF n = 2 THEN 4
           ELSE IF n = 3 THEN 8 ELSE IF n = 4 THEN 16 ELSE 32

BackoffDelay_Linear(attempts) == base_delay * (attempts + 1)

BackoffDelay(attempts) ==
    IF base_delay * Pow2(attempts) < max_delay
    THEN base_delay * Pow2(attempts) ELSE max_delay

\* the except clause of run() (lines 1015-1028) up to its asyncio.sleep
RunSleep(r) ==
    IF r.attempts < max_reconnect_attempts
    THEN [r EXCEPT !.pc = "sleep", !.branch = "backoff",
                   !.delay = BackoffDelay(r.attempts), !.ws = NoWs, !.url = None,
                   !.ensured = FALSE]
    ELSE [r EXCEPT !.pc = "sleep", !.branch = "long",
                   !.delay = LongDelay, !.ws = NoWs, !.url = None,
                   !.ensured = FALSE]

\* line 467: the URL connect() hands to websockets.connect
ConnectUrl(rurl) == IF rurl # None THEN rurl ELSE TWITCH_EVENTSUB_WS_URL

\* connect() enters ensure_valid_token() (line 464)
RunEnsure ==
    /\ run.pc = "connect"
    /\ LET d == EnsureDecision(access_token, token_expires_at, refresh_token,
                               token_type, now)
       IN  run' = IF d = "auth" THEN RunSleep(run)
                  ELSE IF d = "refresh" THEN [run EXCEPT !.pc = "refreshing"]
                  ELSE [run EXCEPT !.pc = "validating"]
    /\ UNCHANGED <<tokenVars, sessVars, oauthVars, ws, mig, disc, obsVars, now, tmVars, cbVars>>

\* ensure_valid_token() has failed: connect() re-raises (lines 476-478)
RunTokenRejected_Opens ==
    /\ run.pc \in {"refreshing", "validating"}
    /\ nfail < MaxFailures
    /\ nfail' = nfail + 1
    /\ run' = [run EXCEPT !.pc = "open", !.url = ConnectUrl(reconnect_url)]
    /\ UNCHANGED <<tokenVars, sessVars, oauthVars, ws, mig, disc, cbReconnect,
                   scen, silent, ndisc, migFailed, now, tmVars, cbVars>>

RunTokenRejected ==
    /\ run.pc \in {"refreshing", "validating"}
    /\ nfail < MaxFailures
    /\ nfail' = nfail + 1
    /\ run' = RunSleep(run)
    /\ UNCHANGED <<tokenVars, sessVars, oauthVars, ws, mig, disc, cbReconnect,
                   scen, silent, ndisc, migFailed, now, tmVars, cbVars>>

\* refresh_user_token() got status 200; connect() goes on to line 467-470
RunRefreshed(resp) ==
    /\ run.pc = "refreshing"
    /\ InstallToken(RefreshTokenData(resp, now, refresh_token, token_type,
                                     scopes, token_expires_at))
    /\ run' = [run EXCEPT !.pc = "open", !.url = ConnectUrl(reconnect_url),
                          !.ensured = TRUE]
    /\ UNCHANGED <<sessVars, oauthVars, ws, mig, disc, obsVars, now, tmVars, cbVars>>

\* validate_token() got status 200; connect() goes on to line 467-470
RunValidated ==
    /\ run.pc = "validating"
    /\ run' = [run EXCEPT !.pc = "open", !.url = ConnectUrl(reconnect_url),
                          !.ensured = TRUE]
    /\ UNCHANGED <<tokenVars, sessVars, oauthVars, ws, mig, disc, obsVars, now, tmVars, cbVars>>

\* websockets.connect(url) returned: lines 470-474, the frame loop starts
\* on the object self.websocket holds at that moment
RunOpened ==
    /\ run.pc = "open"
    /\ UnusedWs # {}
    /\ ws' = [ws EXCEPT ![NewWs] = [state |-> "open", close |-> None]]
    /\ websocket' = NewWs
    /\ is_connected' = TRUE
    /\ run' = [run EXCEPT !.pc = "loop", !.ws = NewWs]
    /\ migFailed' = FALSE
    /\ UNCHANGED <<tokenVars, session_id, keepalive_timeout, reconnect_url,
                   is_reconnecting, oauthVars, mig, disc, cbReconnect, scen,
                   silent, nfail, ndisc, now, tmVars, cbVars>>

\* websockets.connect(url) raised: lines 479-486
RunOpenFailed ==
    /\ run.pc = "open"
    /\ nfail < MaxFailures
    /\ nfail' = nfail + 1
    /\ is_connected' = FALSE
    /\ run' = RunSleep(run)
    /\ migFailed' = FALSE
    /\ UNCHANGED <<tokenVars, session_id, websocket, keepalive_timeout,
                   reconnect_url, is_reconnecting, oauthVars, ws, mig, disc,
                   cbReconnect, scen, silent, ndisc, now, tmVars, cbVars>>

\* one iteration of `async for message in self.websocket` in connect()
RunFrame(f) ==
    /\ run.pc = "loop"
    /\ Receiving(run.ws)
    /\ CanTake(f, mig)
    /\ LET p == ProcessMessage(f, Sess)
       IN  /\ session_id' = p.session_id
           /\ keepalive_timeout' = p.keepalive_timeout
           /\ reconnect_url' = p.reconnect_url
           /\ is_reconnecting' = p.is_reconnecting
           /\ cbReconnect' = p.cb
    /\ mig' = Spawn(mig, f, run.ws)
    /\ log' = Logged(log, run.ws, f, Dispatched(f, event_callbacks, session_id'))
    /\ scen' = ScenNext(f, "loop", run.ws)
    /\ silent' = IF silent = run.ws THEN NoWs ELSE silent
    /\ UNCHANGED <<tokenVars, websocket, is_connected, oauthVars, ws, run, disc,
                   nfail, ndisc, migFailed, now, tmVars,
                   event_callbacks, flow>>

\* is_connected after the iteration over a closed transport has ended:
\* the iterator returns on a close with code 1000/1001 and raises
\* ConnectionClosed otherwise (lines 502-510)
LoopEndConnected(kind, cur) == IF kind = "abnormal" THEN FALSE ELSE cur

\* the frame loop of connect() ends; connect() returns and run() resets
\* reconnect_attempts (line 1013)
RunLoopEnd_KeepsCount ==
    /\ run.pc = "loop"
    /\ ws[run.ws].state = "closed"
    /\ is_connected' = LoopEndConnected(ws[run.ws].close, is_connected)
    /\ run' = [run EXCEPT !.pc = "connect", !.ws = NoWs,
                          !.url = None, !.ensured = FALSE]
    /\ ws' = Reported(ws, run.ws)
    /\ UNCHANGED <<tokenVars, session_id, websocket, keepalive_timeout,
                   reconnect_url, is_reconnecting, oauthVars, mig, disc,
                   obsVars, now, tmVars, cbVars>>

RunLoopEnd ==
    /\ run.pc = "loop"
    /\ ws[run.ws].state = "closed"
    /\ is_connected' = LoopEndConnected(ws[run.ws].close, is_connected)
    /\ run' = [run EXCEPT !.pc = "connect", !.attempts = 0, !.ws = NoWs,
                          !.url = None, !.ensured = FALSE]
    /\ ws' = Reported(ws, run.ws)
    /\ UNCHANGED <<tokenVars, session_id, websocket, keepalive_timeout,
                   reconnect_url, is_reconnecting, oauthVars, mig, disc,
                   obsVars, now, tmVars, cbVars>>

\* asyncio.sleep(delay) of run() is over (lines 1022-1023, 1027-1028)
RunWake_Stops ==
    /\ run.pc = "sleep"
    /\ run' = [run EXCEPT !.pc = "stopped"]
    /\ UNCHANGED <<tokenVars, sessVars, oauthVars, ws, mig, disc, obsVars, now, tmVars, cbVars>>

RunWake ==
    /\ run.pc = "sleep"
    /\ run' = [run EXCEPT !.pc = "connect", !.branch = None, !.delay = 0,
                          !.attempts = IF run.branch = "backoff"
                                       THEN run.attempts + 1 ELSE 0]
    /\ UNCHANGED <<tokenVars, sessVars, oauthVars, ws, mig, disc, obsVars, now, tmVars, cbVars>>

(***************************************************************************)
(* _reconnect(): the migration task                                        *)
(***************************************************************************)
\* the task starts: lines 657-665
MigStart(m) ==
    /\ mig[m].pc = "created"
    /\ mig' = IF reconnect_url = None
              THEN [mig EXCEPT ![m] = NoTask]
              ELSE [mig EXCEPT ![m].pc = "connecting", ![m].url = reconnect_url]
    /\ UNCHANGED <<tokenVars, sessVars, oauthVars, ws, run, disc, obsVars, now, tmVars, cbVars>>

\* websockets.connect(self.reconnect_url) returned; the task awaits recv()
MigConnected(m) ==
    /\ mig[m].pc = "connecting"
    /\ UnusedWs # {}
    /\ ws' = [ws EXCEPT ![NewWs] = [state |-> "open", close |-> None]]
    /\ mig' = [mig EXCEPT ![m].pc = "recv", ![m].ws = NewWs]
    /\ UNCHANGED <<tokenVars, sessVars, oauthVars, run, disc, obsVars, now, tmVars, cbVars>>

\* websockets.connect raised: lines 685-687
MigConnectFailed(m) ==
    /\ mig[m].pc = "connecting"
    /\ nfail < MaxFailures
    /\ nfail' = nfail + 1
    /\ is_reconnecting' = FALSE
    /\ mig' = [mig EXCEPT ![m] = NoTask]
    /\ migFailed' = TRUE
    /\ UNCHANGED <<tokenVars, session_id, websocket, keepalive_timeout,
                   reconnect_url, is_connected, oauthVars, ws, run, disc,
                   cbReconnect, scen, silent, ndisc, now, tmVars, cbVars>>

\* the hand-off of lines 676-678
Install_KeepsOld(m, cur) == cur

Install(m, cur) == mig[m].ws

\* recv() returned the first frame of the new transport: it is processed
\* (line 669) whatever its type, then the transport self.websocket holds is
\* closed (lines 672-673); with no transport held, or one that is closed
\* already, the hand-off of lines 676-683 follows at once
MigRecv(m, f) ==
    /\ mig[m].pc = "recv"
    /\ Receiving(mig[m].ws)
    /\ CanTake(f, mig)
    /\ LET p == ProcessMessage(f, Sess)
           direct == ~Closes(websocket)
       IN  /\ session_id' = p.session_id
           /\ keepalive_timeout' = p.keepalive_timeout
           /\ cbReconnect' = p.cb
           /\ reconnect_url' = IF direct THEN None ELSE p.reconnect_url
           /\ is_reconnecting' = IF direct THEN FALSE ELSE p.is_reconnecting
           /\ websocket' = IF direct THEN Install(m, websocket) ELSE websocket
           /\ mig' = Spawn([mig EXCEPT ![m].pc = IF direct THEN "loop"
                                                 ELSE "closing",
                                       ![m].tgt = IF direct THEN NoWs
                                                  ELSE websocket,
                                       ![m].first = f.type], f, mig[m].ws)
    /\ ws' = CloseByClient(ws, websocket)
    /\ log' = Logged(log, mig[m].ws, f, Dispatched(f, event_callbacks, session_id'))
    /\ scen' = ScenNext(f, "recv", mig[m].ws)
    /\ silent' = IF silent = mig[m].ws THEN NoWs ELSE silent
    /\ UNCHANGED <<tokenVars, is_connected, oauthVars, run, disc, nfail,
                   ndisc, migFailed, now, tmVars,
                   event_callbacks, flow>>

\* recv() raised because the new transport is closed: lines 685-687
MigRecvFailed(m) ==
    /\ mig[m].pc = "recv"
    /\ ws[mig[m].ws].state = "closed"
    /\ is_reconnecting' = FALSE
    /\ mig' = [mig EXCEPT ![m] = NoTask]
    /\ ws' = Reported(ws, mig[m].ws)
    /\ migFailed' = TRUE
    /\ UNCHANGED <<tokenVars, session_id, websocket, keepalive_timeout,
                   reconnect_url, is_connected, oauthVars, run, disc,
                   cbReconnect, scen, silent, nfail, ndisc, now, tmVars, cbVars>>

\* close() of the old transport returned: lines 676-683, the frame loop
\* of the task starts on the transport it has just installed
MigInstall(m) ==
    /\ mig[m].pc = "closing"
    /\ ws' = CloseDone(ws, mig[m].tgt)
    /\ websocket' = Install(m, websocket)
    /\ is_reconnecting' = FALSE
    /\ reconnect_url' = None
    /\ mig' = [mig EXCEPT ![m].pc = "loop", ![m].tgt = NoWs]
    /\ UNCHANGED <<tokenVars, session_id, keepalive_timeout, is_connected,
                   oauthVars, run, disc, obsVars, now, tmVars, cbVars>>

\* one iteration of `async for message in self.websocket` in _reconnect()
MigFrame(m, f) ==
    /\ mig[m].pc = "loop"
    /\ Receiving(mig[m].ws)
    /\ CanTake(f, mig)
    /\ LET p == ProcessMessage(f, Sess)
       IN  /\ session_id' = p.session_id
           /\ keepalive_timeout' = p.keepalive_timeout
           /\ reconnect_url' = p.reconnect_url
           /\ is_reconnecting' = p.is_reconnecting
           /\ cbReconnect' = p.cb
    /\ mig' = Spawn(mig, f, mig[m].ws)
    /\ log' = Logged(log, mig[m].ws, f, Dispatched(f, event_callbacks, session_id'))
    /\ scen' = ScenNext(f, "loop2", mig[m].ws)
    /\ silent' = IF silent = mig[m].ws THEN NoWs ELSE silent
    /\ UNCHANGED <<tokenVars, websocket, is_connected, oauthVars, ws, run, disc,
                   nfail, ndisc, migFailed, now, tmVars,
                   event_callbacks, flow>>

\* the frame loop of the task ends and the task with it
MigLoopEnd(m) ==
    /\ mig[m].pc = "loop"
    /\ ws[mig[m].ws].state = "closed"
    /\ is_connected' = LoopEndConnected(ws[mig[m].ws].close, is_connected)
    /\ mig' = [mig EXCEPT ![m] = NoTask]
    /\ ws' = Reported(ws, mig[m].ws)
    /\ UNCHANGED <<tokenVars, session_id, websocket, keepalive_timeout,
                   reconnect_url, is_reconnecting, oauthVars, run, disc,
                   obsVars, now, tmVars, cbVars>>

(***************************************************************************)
(* disconnect()                                                            *)
(***************************************************************************)
\* disconnect() with no transport held: nothing is done (line 987)
DisconnectNoop ==
    /\ disc.pc = "idle"
    /\ ndisc < MaxDisconnects
    /\ websocket = NoWs
    /\ ndisc' = ndisc + 1
    /\ UNCHANGED <<tokenVars, sessVars, oauthVars, taskVars, cbReconnect, scen,
                   silent, nfail, migFailed, now, tmVars, cbVars>>

\* disconnect() while self.websocket holds a transport that is closed
\* already: close() has nothing to wait for, the finally clause follows
DisconnectStale ==
    /\ disc.pc = "idle"
    /\ ndisc < MaxDisconnects
    /\ websocket # NoWs
    /\ ~Closes(websocket)
    /\ is_connected' = FALSE
    /\ websocket' = NoWs
    /\ ndisc' = ndisc + 1
    /\ UNCHANGED <<tokenVars, session_id, keepalive_timeout, reconnect_url,
                   is_reconnecting, oauthVars, taskVars, cbReconnect, scen,
                   silent, nfail, migFailed, now, tmVars, cbVars>>

\* disconnect() awaits self.websocket.close() (line 989)
DisconnectClose ==
    /\ disc.pc = "idle"
    /\ ndisc < MaxDisconnects
    /\ Closes(websocket)
    /\ ws' = CloseByClient(ws, websocket)
    /\ disc' = [pc |-> "closing", tgt |-> websocket]
    /\ UNCHANGED <<tokenVars, sessVars, oauthVars, run, mig, obsVars, now, tmVars, cbVars>>

\* close() returned: the finally clause of disconnect() (lines 993-995)
DisconnectDone ==
    /\ disc.pc = "closing"
    /\ ws' = CloseDone(ws, disc.tgt)
    /\ is_connected' = FALSE
    /\ websocket' = NoWs
    /\ disc' = NoDisconnect
    /\ ndisc' = ndisc + 1
    /\ UNCHANGED <<tokenVars, session_id, keepalive_timeout, reconnect_url,
                   is_reconnecting, oauthVars, run, mig, cbReconnect, scen,
                   silent, nfail, migFailed, now, tmVars, cbVars>>

(***************************************************************************)
(* The server and the network                                              *)
(***************************************************************************)
\* the peer closes transport w with code 1000/1001 ("clean"), or the
\* connection is lost or closed with another code ("abnormal")
ServerClose(w, kind) ==
    /\ ws[w].state = "open"
    /\ ws' = [ws EXCEPT ![w].state = "closed", ![w].close = kind]
    /\ UNCHANGED <<tokenVars, sessVars, oauthVars, run, mig, disc, obsVars, now, tmVars, cbVars>>

\* the tasks that await a frame of transport w: 0 is connect() called by
\* run(), m > 0 the migration task m
Readers(w) ==
    (IF run.pc = "loop" /\ run.ws = w THEN {0} ELSE {})
    \cup {m \in MigIds : mig[m].pc \in {"loop", "recv"} /\ mig[m].ws = w}

\* keepalive_timeout seconds pass without a frame on the open transport w
\* while a task awaits its next frame (line 499 has no timeout)
KeepaliveElapse(w) ==
    /\ ws[w].state = "open"
    /\ Readers(w) # {}
    /\ silent # w
    /\ silent' = w
    /\ UNCHANGED <<tokenVars, sessVars, oauthVars, taskVars, cbReconnect, scen,
                   nfail, ndisc, migFailed, now, tmVars, cbVars>>

(***************************************************************************)
(* Specifications                                                          *)
(***************************************************************************)
\* token sets a client holds when run() is started
InitTokens ==
    {NoToken}
    \cup [access_token : {"A1"}, refresh_token : {None, "R1"},
          token_type : {"user"}, scopes : {{"bits:read"}},
          token_expires_at : {SessionStart + 30}]

InitSessionAttrs ==
    /\ session_id = NoSession
    /\ websocket = NoWs
    /\ keepalive_timeout = DEFAULT_KEEPALIVE_TIMEOUT
    /\ reconnect_url = None
    /\ is_connected = FALSE
    /\ is_reconnecting = FALSE

InitTasks ==
    /\ ws = [w \in WsIds |-> NoTransport]
    /\ run = [pc |-> "connect", attempts |-> 0, ws |-> NoWs, url |-> None,
              branch |-> None, delay |-> 0, ensured |-> FALSE]
    /\ mig = [m \in MigIds |-> NoTask]
    /\ disc = NoDisconnect
    /\ cbReconnect = 0
    /\ scen = "init"
    /\ silent = NoWs
    /\ nfail = 0
    /\ ndisc = 0
    /\ migFailed = FALSE

InitOAuthTable ==
    /\ oauth_states = [s \in States |-> NoState]
    /\ exch = [i \in ExchIds |-> NoCall]
    /\ passCount = [s \in States |-> 0]
    /\ recorded = [s \in States |-> NoRecording]
    /\ auth_url = NoUrl

InitTokenCalls ==
    /\ sub = NoSub
    /\ refr = NoTokenCall
    /\ rev = NoTokenCall

\* line 111: no callbacks
InitCallbacks ==
    /\ event_callbacks = [t \in {} |-> <<>>]
    /\ log = NoLog
    /\ flow = NoFlow

\* the client after __init__ has a token set installed and run() is started
Init ==
    /\ \E tok \in InitTokens :
          /\ access_token = tok.access_token
          /\ refresh_token = tok.refresh_token
          /\ token_type = tok.token_type
          /\ scopes = tok.scopes
          /\ token_expires_at = tok.token_expires_at
    /\ InitSessionAttrs
    /\ InitTasks
    /\ InitOAuthTable
    /\ InitTokenCalls
    /\ InitCallbacks
    /\ granted = (access_token # None)
    /\ now = SessionStart

Next ==
    \/ RunEnsure
    \/ RunTokenRejected
    \/ \E resp \in TokenResponses : RunRefreshed(resp)
    \/ RunValidated
    \/ RunOpened
    \/ RunOpenFailed
    \/ \E f \in FramesOn(run.ws) : RunFrame(f)
    \/ RunLoopEnd
    \/ RunWake
    \/ \E m \in MigIds : MigStart(m)
    \/ \E m \in MigIds : MigConnected(m)
    \/ \E m \in MigIds : MigConnectFailed(m)
    \/ \E m \in MigIds : \E f \in FramesOn(mig[m].ws) : MigRecv(m, f)
    \/ \E m \in MigIds : MigRecvFailed(m)
    \/ \E m \in MigIds : MigInstall(m)
    \/ \E m \in MigIds : \E f \in FramesOn(mig[m].ws) : MigFrame(m, f)
    \/ \E m \in MigIds : MigLoopEnd(m)
    \/ DisconnectNoop
    \/ DisconnectStale
    \/ DisconnectClose
    \/ DisconnectDone
    \/ \E w \in WsIds : \E kind \in {"clean", "abnormal"} : ServerClose(w, kind)

Spec == Init /\ [][Next]_vars

\* one connection at a time: run(), connect() and disconnect() with a server
\* that never asks for a migration, and the clock of the keepalive interval
NextConnect ==
    \/ RunEnsure
    \/ RunTokenRejected
    \/ \E resp \in TokenResponses : RunRefreshed(resp)
    \/ RunValidated
    \/ RunOpened
    \/ RunOpenFailed
    \/ \E f \in PlainFramesOn(run.ws) : RunFrame(f)
    \/ RunLoopEnd
    \/ RunWake
    \/ DisconnectNoop
    \/ DisconnectStale
    \/ DisconnectClose
    \/ DisconnectDone
    \/ \E w \in WsIds : \E kind \in {"clean", "abnormal"} : ServerClose(w, kind)
    \/ \E w \in WsIds : KeepaliveElapse(w)

SpecConnect == Init /\ [][NextConnect]_vars

\* the same with the scheduling of the event loop: a sleep of run() ends,
\* and a ready run() task gets to call connect()
SpecRunFair ==
    Init /\ [][NextConnect]_vars /\ WF_vars(RunWake) /\ WF_vars(RunEnsure)

\* run() together with a second task that calls subscribe_to_event(): both
\* enter ensure_valid_token() (lines 464 and 736), which holds no lock
NextRefresh ==
    \/ RunEnsure
    \/ RunTokenRejected
    \/ \E resp \in TokenResponses : RunRefreshed(resp)
    \/ RunValidated
    \/ RunOpened
    \/ RunOpenFailed
    \/ \E f \in PlainFramesOn(run.ws) : RunFrame(f)
    \/ RunLoopEnd
    \/ RunWake
    \/ \E w \in WsIds : ServerClose(w, "clean")
    \/ \E ty \in SubTypes : SubscribeCall(ty)
    \/ \E resp \in TokenResponses : SubRefreshed(resp)
    \/ SubValidated
    \/ SubEnsureFailed
    \/ \E answer \in SubAnswers : SubAnswered(answer)

SpecRefresh == Init /\ [][NextRefresh]_vars

\* the client after __init__ (lines 92-108); the hosting application
\* generates authorization URLs and feeds redirects into the client
InitOAuth ==
    /\ access_token = None
    /\ refresh_token = None
    /\ token_type = "app"
    /\ scopes = {}
    /\ token_expires_at = NoTime
    /\ InitSessionAttrs
    /\ InitTasks
    /\ InitOAuthTable
    /\ InitTokenCalls
    /\ InitCallbacks
    /\ granted = FALSE
    /\ now = 0

NextOAuth ==
    \/ \E sc \in ScopeLists : \E st \in StateArgs : GenerateAuthUrl(sc, st)
    \/ \E i \in ExchIds : \E s \in States : ExchangeValidate(i, s)
    \/ \E i \in ExchIds : \E resp \in TokenResponses : ExchangeSuccess(i, resp)
    \/ \E i \in ExchIds : ExchangeFailure(i)
    \/ \E i \in ExchIds : ExchangeReturn(i)
    \/ \E d \in TimeSteps : Tick(d)

SpecOAuth == InitOAuth /\ [][NextOAuth]_vars

\* the application of main.py on a client after __init__: on_ready starts
\* the OAuth flow, the redirect handler feeds the code into the client
NextFlow ==
    \/ FlowInitiate
    \/ FlowPollSleep
    \/ FlowTimeout
    \/ FlowCompleted
    \/ StartEventsubConnection
    \/ ExchangeValidate(Min(ExchIds), EffectiveState(None))
    \/ \E resp \in TokenResponses : ExchangeSuccess(Min(ExchIds), resp)
    \/ ExchangeFailure(Min(ExchIds))
    \/ ExchangeReturn(Min(ExchIds))

SpecFlow == InitOAuth /\ [][NextFlow]_vars

\* a client that has authorised with state s1, connected, received the
\* welcome of its first transport and then revoked its token
InitEstablished ==
    /\ session_id = Sid(1)
    /\ websocket = 1
    /\ keepalive_timeout = DEFAULT_KEEPALIVE_TIMEOUT
    /\ reconnect_url = None
    /\ is_connected = TRUE
    /\ is_reconnecting = FALSE
    /\ ws = [w \in WsIds |-> IF w = 1 THEN [state |-> "open", close |-> None]
                             ELSE NoTransport]
    /\ run = [pc |-> "loop", attempts |-> 0, ws |-> 1,
              url |-> TWITCH_EVENTSUB_WS_URL, branch |-> None, delay |-> 0,
              ensured |-> TRUE]
    /\ mig = [m \in MigIds |-> NoTask]
    /\ disc = NoDisconnect
    /\ cbReconnect = 0
    /\ scen = "w1"
    /\ silent = NoWs
    /\ nfail = 0
    /\ ndisc = 0
    /\ migFailed = FALSE
    /\ oauth_states = [s \in States |-> NoState]
    /\ exch = [i \in ExchIds |-> NoCall]
    /\ passCount = [s \in States |-> IF s = "s1" THEN 1 ELSE 0]
    /\ recorded = [s \in States |-> IF s = "s1" THEN [at |-> 0, found |-> TRUE]
                                    ELSE NoRecording]
    /\ auth_url = [kind |-> "url", state |-> QuotePlus(StateText("s1"))]
    /\ sub = NoSub
    /\ refr = NoTokenCall
    /\ rev = [pc |-> "done", result |-> "ok"]

\* the token manager with its callers: the client is new, or has a session
\* and no token
InitToken ==
    /\ access_token = None
    /\ refresh_token = None
    /\ token_type = "app"
    /\ scopes = {}
    /\ token_expires_at = NoTime
    /\ granted = FALSE
    /\ now = 0
    /\ \/ InitSessionAttrs /\ InitTasks /\ InitOAuthTable /\ InitTokenCalls
       \/ InitEstablished
    /\ InitCallbacks

NextToken ==
    \/ \E sc \in ScopeLists \ {<<>>} : GenerateAuthUrl(sc, None)
    \/ ExchangeValidate(Min(ExchIds), EffectiveState(None))
    \/ \E resp \in TokenResponses : ExchangeSuccess(Min(ExchIds), resp)
    \/ ExchangeFailure(Min(ExchIds))
    \/ ExchangeReturn(Min(ExchIds))
    \/ \E ty \in SubTypes : SubscribeCall(ty)
    \/ \E resp \in TokenResponses : SubRefreshed(resp)
    \/ SubValidated
    \/ SubEnsureFailed
    \/ \E answer \in SubAnswers : SubAnswered(answer)
    \/ RefreshCall
    \/ \E resp \in TokenResponses : RefreshSuccess(resp)
    \/ RefreshFailure
    \/ RevokeCall
    \/ RevokeSuccess
    \/ RevokeFailure
    \/ \E t \in TokenTimes : Elapse(t)

SpecToken == InitToken /\ [][NextToken]_vars

\* the frame loop with handlers: a client that holds a user token calls
\* run(); the hosting application registers handlers, the server sends frames
InitDispatch ==
    /\ access_token = "A1"
    /\ refresh_token = "R1"
    /\ token_type = "user"
    /\ scopes = {"bits:read"}
    /\ token_expires_at = SessionStart + ExpiresIn
    /\ InitSessionAttrs
    /\ InitTasks
    /\ InitOAuthTable
    /\ InitTokenCalls
    /\ event_callbacks = [t \in {} |-> <<>>]
    /\ log = [NoLog EXCEPT !.on = TRUE]
    /\ flow = NoFlow
    /\ granted = TRUE
    /\ now = SessionStart

NextDispatch ==
    \/ \E ty \in RegTypes : \E h \in Handlers : AddEventCallback(ty, h)
    \/ RunEnsure
    \/ RunValidated
    \/ RunOpened
    \/ \E f \in PlainFramesOn(run.ws) \cup NotificationFrames : RunFrame(f)
    \/ RunLoopEnd
    \/ \E w \in WsIds : ServerClose(w, "clean")

SpecDispatch == InitDispatch /\ [][NextDispatch]_vars

(***************************************************************************)
(* Properties                                                              *)
(***************************************************************************)
\* the frame loops that iterate over an open transport: 0 is the loop of
\* connect(), m > 0 the loop of migration task m
ActiveLoops ==
    (IF run.pc = "loop" /\ ws[run.ws].state = "open" THEN {0} ELSE {})
    \cup {m \in MigIds : mig[m].pc = "loop" /\ ws[mig[m].ws].state = "open"}

\* C1: at any time at most one frame-processing loop is active, over every
\* interleaving of run(), connect(), the migration task and transport closes.
C1_AtMostOneFrameLoop == Cardinality(ActiveLoops) <= 1

\* a migration task completes the hand-off of lines 676-683 in this step
HandsOff(m) == mig[m].pc \in {"recv", "closing"} /\ mig'[m].pc = "loop"

\* C2: after the frames session_welcome, session_reconnect (with a URL) on
\* the current transport and a session_welcome on the new transport, the
\* hand-off leaves exactly one reconnect callback fired, session_id equal to
\* the id of the new session, the old transport closed and the new transport
\* installed as self.websocket.
C2_MigrationHandOff ==
    [][\A m \in MigIds :
         (HandsOff(m) /\ scen' = "w1rw2") =>
            /\ cbReconnect' = 1
            /\ session_id' = Sid(mig'[m].ws)
            /\ ws'[mig'[m].old].state = "closed"
            /\ websocket' = mig'[m].ws]_vars

C2_Witness ==
    /\ scen = "w1rw2"
    /\ \E m \in MigIds :
          /\ mig[m].pc = "loop"
          /\ websocket = mig[m].ws
          /\ session_id = Sid(mig[m].ws)
          /\ ws[mig[m].old].state = "closed"
          /\ ws[mig[m].ws].state = "open"
    /\ cbReconnect = 1

\* C3: a migration closes the old transport and installs the new one only
\* if the first frame received on the new transport is a session_welcome.
C3_WelcomeRequired ==
    \A m \in MigIds :
        mig[m].pc \in {"closing", "loop"} => mig[m].first = "session_welcome"

\* C4: after a migration attempt has failed and the old transport is no
\* longer open, the next connection attempt of run() goes to the default
\* EventSub URL.
C4_DefaultUrlAfterFailedMigration ==
    [][(/\ run.pc \in {"refreshing", "validating"}
        /\ run'.pc = "open"
        /\ migFailed
        /\ \A m \in MigIds : mig[m].pc = "none")
       => run'.url = TWITCH_EVENTSUB_WS_URL]_vars

\* C5: once a disconnect request has completed, the reconnection loop does
\* not bring the client back to a connected state.
C5_DisconnectStaysClosed == ndisc > 0 => ~is_connected

\* C6: when keepalive_timeout seconds pass without a frame on an open
\* transport, no frame loop goes on waiting for that transport.
C6_SilentTransportDropped ==
    ~(silent # NoWs /\ ws[silent].state = "open" /\ Readers(silent) # {})

\* C7: when disconnect() returns, is_connected is False, no transport is
\* held and session_id, reconnect_url and is_reconnecting are cleared.
C7_DisconnectClearsSession ==
    [][ndisc' > ndisc =>
         /\ ~is_connected'
         /\ websocket' = NoWs
         /\ session_id' = NoSession
         /\ reconnect_url' = None
         /\ ~is_reconnecting']_vars

\* C8: whenever the frame loop of a connection ends, is_connected is False
\* when connect() returns.
C8_LoopEndDisconnected ==
    [][(run.pc = "loop" /\ run'.pc # "loop") => ~is_connected']_vars

\* C9: connect() opens a transport only when ensure_valid_token() has
\* succeeded in the same call; when the token check fails it raises, opens
\* no transport and does not enter the connected state.
C9_OpenOnlyAfterTokenCheck ==
    [][/\ (\E w \in WsIds : ws[w].state = "unused" /\ ws'[w].state = "open")
            => (run.pc = "open" /\ run.ensured)
       /\ (run.pc \in {"connect", "refreshing", "validating"} /\ run'.pc = "sleep")
            => (ws' = ws /\ websocket' = websocket /\ is_connected' = is_connected)
      ]_vars

C9_Witness ==
    /\ run.pc = "sleep"
    /\ access_token # None
    /\ nfail > 0
    /\ \A w \in WsIds : ws[w].state = "unused"
    /\ ~is_connected

\* C10: each recorded OAuth state lets at most one exchange pass the state
\* validation; an exchange with a state that has been consumed fails with
\* the invalid-state error.
C10_StateSingleUse ==
    [][\A s \in States :
         /\ passCount'[s] <= 1
         /\ \A i \in ExchIds :
              (exch[i].pc = "idle" /\ exch'[i].pc # "idle" /\ exch'[i].state = s
               /\ passCount[s] >= 1)
              => exch'[i].result = "InvalidState"]_vars

C10_Witness ==
    \E i \in ExchIds : \E s \in States :
        /\ exch[i].pc = "done"
        /\ exch[i].state = s
        /\ exch[i].result = "InvalidState"
        /\ passCount[s] = 1

\* an exchange_code_for_token call i that is made in this step with state s
ExchangeCalled(i, s) ==
    exch[i].pc = "idle" /\ exch'[i].pc # "idle" /\ exch'[i].state = s

\* C11 as stated: a state recorded at T that no exchange has found since
\* passes the state validation up to T+300s (so at T+299s) and is rejected
\* with the expired-state error after that (so at T+301s).
C11_WindowAsStated ==
    [][\A i \in ExchIds : \A s \in States :
         (ExchangeCalled(i, s) /\ recorded[s].at # NoTime /\ ~recorded[s].found)
         => IF now - recorded[s].at <= OAUTH_STATE_EXPIRY
            THEN exch'[i].pc = "posting"
            ELSE exch'[i].result = "ExpiredState"]_vars

\* C11: a state recorded at T that no exchange has found since passes the
\* state validation up to T+300s; after that it is rejected, with the
\* expired-state error when it is still in the table and with the
\* invalid-state error when a later generate_auth_url call has swept it.
C11_WindowWithSweep ==
    [][\A i \in ExchIds : \A s \in States :
         (ExchangeCalled(i, s) /\ recorded[s].at # NoTime /\ ~recorded[s].found)
         => IF now - recorded[s].at <= OAUTH_STATE_EXPIRY
            THEN exch'[i].pc = "posting"
            ELSE /\ exch'[i].pc = "done"
                 /\ exch'[i].result = IF oauth_states[s] # NoState
                                      THEN "ExpiredState" ELSE "InvalidState"]_vars

C11_Witness ==
    \E i, j \in ExchIds :
        /\ exch[i].pc = "posting"
        /\ exch[i].at - recorded[exch[i].state].at = 299
        /\ exch[j].result = "ExpiredState"
        /\ exch[j].at - recorded[exch[j].state].at = 301

\* C12: an exchange_code_for_token call whose state is not in the table
\* (unknown or consumed) or is older than the window raises the state error
\* without sending a request to the token endpoint and without changing the
\* token set.
C12_StateFailureChangesNothing ==
    [][\A i \in ExchIds : \A s \in States :
         (ExchangeCalled(i, s)
          /\ (oauth_states[s] = NoState
              \/ now - oauth_states[s].timestamp > OAUTH_STATE_EXPIRY))
         => /\ exch'[i].pc = "done"
            /\ exch'[i].result \in {"InvalidState", "ExpiredState"}
            /\ tokenVars' = tokenVars]_vars

C12_Witness ==
    \E i, j \in ExchIds :
        /\ exch[i].result = "InvalidState"
        /\ exch[j].result = "ExpiredState"
        /\ access_token # None

\* the token set the answer resp of the token endpoint stands for
ResultTokenSet(resp, t) ==
    [access_token |-> resp.access_token,
     refresh_token |-> resp.refresh_token,
     token_type |-> "user",
     scopes |-> IF resp.has_scope THEN resp.scope ELSE {},
     token_expires_at |-> IF resp.expires_in # 0 THEN t + resp.expires_in
                          ELSE NoTime]

CurrentTokenSet ==
    [access_token |-> access_token, refresh_token |-> refresh_token,
     token_type |-> token_type, scopes |-> scopes,
     token_expires_at |-> token_expires_at]

\* C13: when the token endpoint answers an exchange with success, the token
\* set is the one the answer stands for, with kind user; any other answer
\* ends the call with the authentication error and the token set unchanged.
C13_ExchangeInstallsResult ==
    [][\A i \in ExchIds :
         (exch[i].pc = "posting" /\ exch'[i].pc = "done")
         => IF exch'[i].result = "ok"
            THEN \E resp \in TokenResponses :
                    CurrentTokenSet' = ResultTokenSet(resp, now)
            ELSE /\ exch'[i].result = "TwitchAuthenticationError"
                 /\ tokenVars' = tokenVars]_vars

\* C20: generate_auth_url with an empty scopes list raises ValueError and
\* leaves the state table as it is; with a non-empty list the state it
\* records is the one a parser reads back from the returned URL, and no
\* other state is recorded.
C20_GenerateRecordsUrlState ==
    [][/\ (auth_url'.kind = "ValueError" /\ auth_url' # auth_url)
            => oauth_states' = oauth_states
       /\ \A s \in States :
            (oauth_states'[s] # NoState /\ oauth_states'[s] # oauth_states[s])
            => /\ auth_url'.kind = "url"
               /\ UnquotePlus(auth_url'.state) = StateText(s)
               /\ oauth_states'[s].timestamp = now
               /\ \A r \in States \ {s} :
                     oauth_states'[r] \in {oauth_states[r], NoState}
      ]_vars

C20_Witness ==
    /\ auth_url.kind = "ValueError"
    /\ \E s \in States :
          /\ oauth_states[s] # NoState
          /\ StateText(s) # QuotePlus(StateText(s))

\* C14: the token kind is user only while a code exchange has succeeded and
\* no revocation has followed it; the client starts as app kind with an
\* empty token set, and a successful revocation puts it back there.
C14_UserKindOnlyByExchange ==
    /\ CurrentTokenSet = NoToken
    /\ [](token_type = "user" => (granted /\ access_token # None))
    /\ [][(rev.pc = "posting" /\ rev'.result = "ok")
            => CurrentTokenSet' = NoToken]_vars

C14_Witness ==
    /\ rev.pc = "done" /\ rev.result = "ok"
    /\ exch[Min(ExchIds)].result = "ok"
    /\ token_type = "app"
    /\ ~granted

\* a subscribe_to_event call sends its subscription request in this step
SubscriptionSent == sub.pc # "posting" /\ sub'.pc = "posting"

\* C15: when subscribe_to_event sends the request for a type that requires
\* scopes, the token kind is user.
C15_NoScopeGatedRequestAsApp ==
    [][(SubscriptionSent /\ RequiredScopes(sub'.type) # {})
         => token_type' = "user"]_vars

\* subscribe_to_event is called with a session and enters ensure_valid_token
EnsureEntered ==
    sub.pc \in {"idle", "done"} /\ sub' # sub /\ session_id # NoSession

NearExpiry == token_expires_at # NoTime /\ now >= token_expires_at - RefreshMargin

\* C16 as stated: one refresh call when the token is within 60s of expiry
\* and a refresh token of user kind is held; no refresh call and one
\* validate call when the expiry is more than 60s away or unset.
C16_CallsAsStated ==
    [][EnsureEntered =>
         /\ (NearExpiry /\ refresh_token # None /\ token_type = "user")
               => (sub'.refreshes = 1 /\ sub'.validates = 0)
         /\ ~NearExpiry => (sub'.refreshes = 0 /\ sub'.validates = 1)]_vars

\* C16: one refresh call (and no validate call) when the token is within
\* 60s of expiry and a refresh token of user kind is held; no refresh call
\* and one validate call when an access token is held and its expiry is
\* more than 60s away or unset; the call issues no further request of
\* either kind before it returns.
C16_CallsWithTokenHeld ==
    [][/\ EnsureEntered =>
            /\ (NearExpiry /\ refresh_token # None /\ token_type = "user")
                  => (sub'.refreshes = 1 /\ sub'.validates = 0)
            /\ (~NearExpiry /\ access_token # None)
                  => (sub'.refreshes = 0 /\ sub'.validates = 1)
       /\ sub.pc \notin {"idle", "done"} =>
            (sub'.refreshes = sub.refreshes /\ sub'.validates = sub.validates)
      ]_vars

C16_Witness ==
    /\ sub.pc = "refreshing"
    /\ sub.refreshes = 1
    /\ now = ExpiresIn - RefreshMargin
    /\ token_expires_at = ExpiresIn

\* C17: ensure_valid_token raises the authentication error when no access
\* token is held and when the token is within 60s of expiry with no refresh
\* token or a kind other than user; a failed refresh or validation ends the
\* call with the authentication error too.
C17_EnsureFailsWithAuthError ==
    [][/\ (EnsureEntered
           /\ (access_token = None
               \/ (NearExpiry /\ (refresh_token = None \/ token_type # "user"))))
            => (sub'.pc = "done" /\ sub'.result = "TwitchAuthenticationError"
                /\ sub'.refreshes = 0 /\ sub'.validates = 0)
       /\ (sub.pc \in {"refreshing", "validating"} /\ sub'.pc = "done"
           /\ ~sub'.ensured)
            => sub'.result = "TwitchAuthenticationError"]_vars

C17_Witness ==
    /\ sub.pc = "done"
    /\ sub.result = "TwitchAuthenticationError"
    /\ sub.refreshes = 0 /\ sub.validates = 0
    /\ access_token # None
    /\ NearExpiry
    /\ token_type = "app"
    /\ refresh_token # None

\* C18: refresh_user_token raises ValueError without sending a request when
\* no refresh token is held; on success the access token is the one of the
\* answer and the refresh token is the one of the answer, or the one held
\* before when the answer carries none.
C18_RefreshKeepsRefreshToken ==
    [][/\ (refr.pc \in {"idle", "done"} /\ refr' # refr /\ refresh_token = None)
            => (refr'.pc = "done" /\ refr'.result = "ValueError")
       /\ (refr.pc = "posting" /\ refr'.result = "ok")
            => \E resp \in TokenResponses :
                  /\ access_token' = resp.access_token
                  /\ refresh_token' = IF resp.refresh_token = None
                                      THEN refresh_token
                                      ELSE resp.refresh_token]_vars

C18_Witness ==
    /\ refr.pc = "done" /\ refr.result = "ok"
    /\ access_token = "A3"
    /\ refresh_token = "R2"

\* C19: revoke_token raises ValueError when no access token is held; on
\* success the token set is the one of a new client; when the revocation
\* call is rejected or fails, the token set is left as it was.
C19_RevokeResetsTokenSet ==
    [][/\ (rev.pc \in {"idle", "done"} /\ rev' # rev /\ access_token = None)
            => (rev'.pc = "done" /\ rev'.result = "ValueError")
       /\ (rev.pc = "posting" /\ rev'.result = "ok")
            => CurrentTokenSet' = NoToken
       /\ (rev.pc = "posting" /\ rev'.result = "TwitchAuthenticationError")
            => tokenVars' = tokenVars]_vars

C19_Witness ==
    /\ rev.pc = "done"
    /\ rev.result = "TwitchAuthenticationError"
    /\ access_token # None
    /\ token_type = "user"

\* subscribe_to_event is called in this step
SubscribeCalled == sub.pc \in {"idle", "done"} /\ sub' # sub

\* ensure_valid_token() of subscribe_to_event returns in this step
EnsureReturned == ~sub.ensured /\ sub'.ensured

ScopeMissing(ty, kind, held) ==
    kind = "user" /\ ~(RequiredScopes(ty) \subseteq held)

\* C21 as stated: with a user token that lacks a required scope the call
\* returns false and has issued no network call at all.
C21_ScopeCheckAsStated ==
    [][(EnsureReturned /\ ScopeMissing(sub'.type, token_type', scopes'))
         => /\ sub'.pc = "done" /\ sub'.result = "False"
            /\ sub'.refreshes + sub'.validates = 0]_vars

\* C21: with a user token that lacks a required scope the call returns
\* false without sending the subscription request (the token check before
\* it has made its validate or refresh call); in every other case, so for
\* an app-kind token, a type without required scopes and a user token that
\* holds the scope, the call goes on to send the subscription request.
C21_ScopeCheckBeforeRequest ==
    [][EnsureReturned =>
         IF ScopeMissing(sub'.type, token_type', scopes')
         THEN /\ sub'.pc = "done" /\ sub'.result = "False"
              /\ sub'.refreshes + sub'.validates = 1
         ELSE sub'.pc = "posting"]_vars

C21_Witness ==
    /\ sub.pc = "done" /\ sub.result = "False" /\ sub.ensured
    /\ sub.type = "channel.cheer"
    /\ token_type = "user"
    /\ "bits:read" \notin scopes

\* C22: without a session id subscribe_to_event returns false at once: no
\* refresh call, no validate call, no subscription request.
C22_NoSessionFailsFast ==
    [][(SubscribeCalled /\ session_id = NoSession)
         => /\ sub'.pc = "done" /\ sub'.result = "False"
            /\ sub'.refreshes = 0 /\ sub'.validates = 0
            /\ ~sub'.ensured]_vars

C22_Witness ==
    /\ sub.pc = "done" /\ sub.result = "False" /\ ~sub.ensured
    /\ session_id = NoSession
    /\ access_token # None

\* C23: subscribe_to_event returns true only for the accepted status of the
\* subscription endpoint; another status or a transport error gives false;
\* a failure of its token check ends the call with the authentication error.
C23_TrueOnlyWhenAccepted ==
    [][/\ (sub.pc = "posting" /\ sub'.pc = "done")
            => /\ sub'.result \in {"True", "False"}
               /\ sub'.status.status # Accepted => sub'.result = "False"
       /\ (sub'.result = "True" /\ sub # sub')
            => (sub.pc = "posting" /\ sub'.status.status = Accepted)
       /\ (sub'.pc = "done" /\ ~sub'.ensured /\ session_id # NoSession
           /\ sub # sub')
            => sub'.result = "TwitchAuthenticationError"]_vars

C23_Witness ==
    /\ sub.pc = "done" /\ sub.result = "False"
    /\ sub.status.status = "ClientError"

\* C26: while run() sleeps after a failure, the delay is 1, 2, 4, 8, 16
\* seconds for the failures number 1 to 5 in a row and 60 seconds for the
\* 6th, after which the counter is 0 again; the counter stays within 0..5
\* and no delay is above 60 seconds.
C26_BackoffSchedule ==
    /\ [](/\ run.attempts \in 0..5
          /\ run.delay <= 60
          /\ run.pc = "sleep" =>
               IF run.attempts < 5
               THEN /\ run.branch = "backoff"
                    /\ run.delay = <<1, 2, 4, 8, 16>>[run.attempts + 1]
               ELSE run.branch = "long" /\ run.delay = 60)
    /\ [][(run.pc = "sleep" /\ run'.pc # "sleep")
            => run'.attempts = IF run.attempts < 5 THEN run.attempts + 1
                               ELSE 0]_vars

C26_Witness ==
    /\ run.pc = "sleep"
    /\ run.branch = "long"
    /\ run.delay = 60
    /\ run.attempts = 5

\* C27: when connect() returns without raising, run() sets the counter to
\* zero, and a failure met with the counter at zero is followed by the base
\* delay of one second.
C27_ResetAfterHealthyEpisode ==
    [][/\ (run.pc = "loop" /\ run'.pc # "loop")
            => (run'.pc = "connect" /\ run'.attempts = 0)
       /\ (run.pc # "sleep" /\ run'.pc = "sleep" /\ run.attempts = 0)
            => run'.delay = 1]_vars

C27_Witness ==
    /\ run.pc = "sleep"
    /\ run.delay = 1
    /\ nfail = 2
    /\ refresh_token # None
    /\ \E w \in WsIds : ws[w].state = "closed"

\* C28: run() does not end: a sleep after a failure is followed by the
\* next connect() call, and so is a normal return of connect().
C28_RunKeepsConnecting ==
    /\ (run.pc = "sleep") ~> (run.pc = "connect")
    /\ (run.pc = "connect") ~> (run.pc \in {"refreshing", "validating", "sleep"})
    /\ [][run.pc = "loop" /\ run'.pc # "loop" => run'.pc = "connect"]_vars

C28_Witness ==
    /\ run.pc = "connect"
    /\ run.attempts = max_reconnect_attempts

\* _process_message has returned from a frame in this step
FrameStep == log'.n # log.n

\* the invocations, in order, of the handlers hs with the argument data
InvokedWith(calls, from, hs, data) ==
    \A i \in 1..Len(hs) :
        calls[from + i].h = hs[i] /\ calls[from + i].data = data

\* C24: for a notification frame the handlers registered for the frame's
\* subscription_type are invoked with the event object of the payload (an
\* empty object when the payload has none), and after them the handlers
\* registered for "notification" with the whole frame, also when a handler
\* of the first group raises.
C24_NotificationDispatch ==
    [][(FrameStep /\ log'.frame.type = "notification") =>
         LET f == log'.frame
             specific == HandlersFor(event_callbacks, f.subscription_type)
             generic == HandlersFor(event_callbacks, "notification")
         IN  /\ Len(log'.calls) = Len(specific) + Len(generic)
             /\ InvokedWith(log'.calls, 0, specific,
                            IF "event" \in DOMAIN f.payload
                            THEN f.payload.event ELSE EmptyObject)
             /\ InvokedWith(log'.calls, Len(specific), generic, f)]_vars

C24_Witness ==
    /\ log.frame.type = "notification"
    /\ log.frame.subscription_type = "stream.online"
    /\ Len(log.calls) = 2
    /\ log.calls[1].h = "h2"
    /\ log.calls[1].type = "stream.online"
    /\ log.calls[1].data = EventX
    /\ log.calls[2].type = "notification"
    /\ log.calls[2].data = log.frame

\* the event type the handler of a frame with one dispatch passes on
EventType(f) ==
    IF f.type = "session_welcome" THEN "welcome"
    ELSE IF f.type = "session_keepalive" THEN "keepalive"
    ELSE "revocation"

\* C25: a dispatch invokes every handler registered for the type once, in
\* the order of registration, a handler registered twice being invoked
\* twice, whether or not a handler raises; no exception of a handler reaches
\* the caller; with no handler registered nothing is invoked; a registration
\* appends to the list of its type.
C25_DispatchInOrder ==
    [][/\ (FrameStep /\ log'.frame.type \in {"session_welcome",
                                            "session_keepalive", "revocation"})
            => /\ Len(log'.calls) = Len(HandlersFor(event_callbacks,
                                                    EventType(log'.frame)))
               /\ InvokedWith(log'.calls, 0,
                              HandlersFor(event_callbacks, EventType(log'.frame)),
                              log'.frame)
       /\ FrameStep => log'.error \in {"none", "JSONDecodeError"}
       /\ \A ty \in DOMAIN event_callbacks' :
            HandlersFor(event_callbacks', ty) # HandlersFor(event_callbacks, ty)
              => \E h \in Handlers :
                    event_callbacks'[ty] = Append(HandlersFor(event_callbacks, ty), h)]_vars

C25_Witness ==
    /\ log.frame.type = "session_welcome"
    /\ Len(log.calls) = 2
    /\ log.calls[1].h = "h2"
    /\ log.calls[2].h = "h2"
    /\ log.error = "none"

\* C29: a frame that is not valid JSON changes nothing: no handler is
\* invoked, the session attributes, the frame loop and its transport are as
\* before; the next frame of the same transport is processed as usual.
C29_MalformedFrameDropped ==
    [][/\ (FrameStep /\ log'.frame.type = "malformed")
            => /\ log'.calls = <<>>
               /\ UNCHANGED <<sessVars, run, ws, mig, event_callbacks>>
       /\ (FrameStep /\ log'.after_malformed
             /\ log'.frame.type = "session_welcome")
            => /\ session_id' = log'.frame.id
               /\ Len(log'.calls) = Len(HandlersFor(event_callbacks, "welcome"))]_vars

C29_Witness ==
    /\ log.after_malformed
    /\ log.frame.type = "session_welcome"
    /\ session_id = log.frame.id
    /\ Len(log.calls) > 0
    /\ run.pc = "loop"

\* C30: a session_welcome frame leaves its session id in session_id and its
\* keepalive timeout (10 when the frame has none) in keepalive_timeout; each
\* welcome handler is invoked once with the frame, and session_id holds the
\* id of the frame when it is invoked.
C30_WelcomeStoresSession ==
    [][(FrameStep /\ log'.frame.type = "session_welcome") =>
         /\ session_id' = log'.frame.id
         /\ keepalive_timeout' = IF log'.frame.ka = 0 THEN 10 ELSE log'.frame.ka
         /\ Len(log'.calls) = Len(HandlersFor(event_callbacks, "welcome"))
         /\ \A i \in 1..Len(log'.calls) :
              /\ log'.calls[i].h = event_callbacks["welcome"][i]
              /\ log'.calls[i].data = log'.frame
              /\ log'.calls[i].sid = log'.frame.id]_vars

C30_Witness ==
    /\ log.frame.type = "session_welcome"
    /\ log.frame.ka = 0
    /\ keepalive_timeout = 10
    /\ session_id = log.frame.id
    /\ Len(log.calls) = 1
    /\ log.calls[1].sid = log.frame.id
    /\ log.calls[1].data = log.frame

\* asyncio.create_task(self._reconnect()) is called in this step
TaskCreated == \E m \in MigIds : mig[m].pc = "none" /\ mig'[m].pc = "created"

\* a migration task ends in this step without a hand-off
TaskFails(m) == mig[m].pc \in {"created", "connecting", "recv"} /\ mig'[m].pc = "none"

\* C31: a session_reconnect frame read by a frame loop sets is_reconnecting,
\* fires the reconnect callback once and creates the migration task; the
\* loops stay where they are and the transports as they are, so the old
\* transport goes on being read while the migration is pending.
C31_ReconnectDoesNotBlock ==
    [][((TaskCreated \/ cbReconnect' # cbReconnect)
          /\ \A m \in MigIds : mig[m].pc # "recv")
         => /\ TaskCreated
            /\ cbReconnect' = cbReconnect + 1
            /\ is_reconnecting'
            /\ run' = run
            /\ ws' = ws
            /\ \A m \in MigIds : mig[m].pc = "loop" => mig'[m] = mig[m]]_vars

C31_Witness ==
    /\ scen = "w1rf"
    /\ cbReconnect = 1
    /\ is_reconnecting
    /\ run.pc = "loop"
    /\ ws[run.ws].state = "open"
    /\ \E m \in MigIds : mig[m].pc = "recv"

\* C32: when the migration task ends without a hand-off, the client is
\* neither reconnecting nor connected.
C32_FailedMigrationDisconnects ==
    [][\A m \in MigIds :
         (TaskFails(m) /\ mig[m].pc # "created")
            => (~is_reconnecting' /\ ~is_connected')]_vars

\* C33: a reconnect_url is held only while the client is reconnecting.
C33_UrlOnlyWhileReconnecting == reconnect_url # None => is_reconnecting

\* C34: once a disconnect() call has completed, no migration task processes
\* a frame or installs a transport, and no transport is installed.
C34_NothingAfterDisconnect ==
    [][ndisc > 0 =>
         /\ \A m \in MigIds : ~HandsOff(m) /\ mig'[m].first = mig[m].first
         /\ websocket' \in {websocket, NoWs}]_vars

\* C35: when the migration task of a session_reconnect frame ends, with a
\* hand-off, with a failure, or at once for want of a reconnect_url,
\* is_reconnecting is False.
C35_ReconnectingEnds ==
    [][\A m \in MigIds : (TaskFails(m) \/ HandsOff(m)) => ~is_reconnecting']_vars

\* C36: when the frame loop of connect() has ended, session_id is absent.
C36_SessionIdLiveOnly ==
    [][(run.pc = "loop" /\ run'.pc # "loop") => session_id' = NoSession]_vars

\* C38: while an exchange_code_for_token call that passed the validation of
\* state s is in flight, a second call with s (the state not recorded again
\* in between) fails with the invalid-state error and sends no request: of
\* two concurrent calls with one state at most one reaches the token endpoint.
C38_ConcurrentExchangeOnce ==
    [][\A i \in ExchIds : \A j \in ExchIds \ {i} : \A s \in States :
         (/\ ExchangeCalled(j, s)
          /\ exch[i].pc = "posting" /\ exch[i].state = s
          /\ passCount[s] >= 1)
         => /\ exch'[j].pc = "done"
            /\ exch'[j].result = "InvalidState"
            /\ passCount'[s] = 1]_vars

C38_Witness ==
    \E i \in ExchIds : \E j \in ExchIds \ {i} :
        /\ exch[i].pc = "posting"
        /\ exch[j].pc = "done"
        /\ exch[j].result = "InvalidState"
        /\ exch[j].state = exch[i].state
        /\ exch[j].at = exch[i].at
        /\ passCount[exch[i].state] = 1

\* C39: when the token endpoint call of an exchange fails, the token set is
\* as before and the state stays consumed; a later call with the same state
\* (not recorded again) fails with the invalid-state error.
C39_FailedExchangeConsumesState ==
    [][\A i \in ExchIds :
         /\ (exch[i].pc = "posting" /\ exch'[i].result = "TwitchAuthenticationError")
              => /\ UNCHANGED tokenVars
                 /\ passCount[exch[i].state] >= 1
                      => oauth_states'[exch[i].state] = NoState
         /\ \A j \in ExchIds \ {i} :
              (/\ ExchangeCalled(j, exch[i].state)
               /\ exch[i].pc = "done"
               /\ exch[i].result = "TwitchAuthenticationError"
               /\ passCount[exch[i].state] >= 1)
              => exch'[j].result = "InvalidState"]_vars

C39_Witness ==
    \E i \in ExchIds : \E j \in ExchIds \ {i} :
        /\ exch[i].pc = "done"
        /\ exch[i].result = "TwitchAuthenticationError"
        /\ exch[j].pc = "done"
        /\ exch[j].result = "InvalidState"
        /\ exch[j].state = exch[i].state
        /\ exch[j].at > exch[i].at
        /\ passCount[exch[i].state] = 1
        /\ access_token # None

\* C40: at most one token refresh is in flight at a time: run()'s connect()
\* and a subscribe_to_event() call are never both inside the
\* refresh_user_token() call of ensure_valid_token() (line 389), where each
\* would send the refresh token the client holds.
C40_OneRefreshInFlight == ~(run.pc = "refreshing" /\ sub.pc = "refreshing")

\* C37: however often the wait for the authorization times out and
\* initiate_oauth_flow is entered again, start_eventsub_connection is started
\* at most once and each event type has at most one handler registered.
C37_StartedOnce ==
    /\ flow.created <= 1
    /\ \A ty \in RegTypes : Len(HandlersFor(event_callbacks, ty)) <= 1

====
